---- MODULE Spec2Model ----
(***************************************************************************)
(* A model of the Clean mix-in (fika/cleaning/clean.py) and of the         *)
(* classification metric reporter (nyx/model_analysis).                    *)
(*                                                                         *)
(* A table (pandas DataFrame) is a record [cols, rows]: cols is the        *)
(* sequence of column labels, rows the sequence of rows, each row a        *)
(* function from the labels to cells.  A cell is NaN (missing) or a        *)
(* rational <<numerator, denominator>>.  An absent test table is None.     *)
(*                                                                         *)
(* The wrapper object has the four attributes the source names:            *)
(* train_data, test_data, x_train and x_test.  Every method is one action. *)
(* A method that raises leaves the assignments it made before the raise.   *)
(***************************************************************************)
EXTENDS Integers, Sequences, FiniteSets, TLC

VARIABLES
    train_data,   \* self.train_data
    test_data,    \* self.test_data (None when absent)
    x_train,      \* self.x_train
    x_test,       \* self.x_test (None when absent)
    same_train,   \* self.x_train is self.train_data (one DataFrame object)
    same_test,    \* self.x_test is self.test_data
    pre,          \* the four attributes as they were before the last call
    last,         \* the last call: its name, arguments, outcome and result
    calls,        \* number of calls made so far
    analysis      \* the ClassificationModelAnalysis object: model, y_test, y_pred

vars == <<train_data, test_data, x_train, x_test, same_train, same_test, pre, last, calls,
          analysis>>

----------------------------------------------------------------------------
(* Bounds of the model *)

\* number of rows of the initial train table
MaxRows == 2
\* number of calls made on one wrapper
MaxCalls == 1
\* number of held-out rows of a model analysis
MaxLabels == 3
\* number of train rows where a fill looks at the neighbouring rows
MaxSeriesRows == 3

----------------------------------------------------------------------------
(* Cells, rationals and tables *)

NaN == <<>>

Num(n) == <<n, 1>>

isnull(v) == v = NaN

\* a cell that holds a list: a value that is not missing and cannot be hashed
ListValue == <<0, 0>>

None == [none |-> TRUE]

Range(s) == {s[i] : i \in 1..Len(s)}

\* df.shape[0]
NRows(t) == Len(t.rows)

\* df.shape[1]
NCols(t) == Len(t.cols)

\* the values of column c, top to bottom
Column(t, c) == [i \in 1..NRows(t) |-> t.rows[i][c]]

\* whether df[keep] finds every label (otherwise pandas raises KeyError)
HasColumns(t, keep) == Range(keep) \subseteq Range(t.cols)

\* df[keep]: the listed columns, in the order listed, every row kept
SelectColumns(t, keep) ==
    [cols |-> keep,
     rows |-> [i \in 1..NRows(t) |-> [c \in Range(keep) |-> t.rows[i][c]]]]

\* the rows of t whose index is in keep, in their order
RECURSIVE PickRows(_, _, _)
PickRows(rows, keep, i) ==
    IF i > Len(rows) THEN <<>>
    ELSE (IF i \in keep THEN <<rows[i]>> ELSE <<>>) \o PickRows(rows, keep, i + 1)

SelectRows(t, keep) == [cols |-> t.cols, rows |-> PickRows(t.rows, keep, 1)]

\* a < b for rationals with positive denominators
RatLT(a, b) == a[1] * b[2] < b[1] * a[2]

\* Python's round() of the rational n/d (d > 0): to nearest, ties to even
PyRound(n, d) ==
    LET q == n \div d
        r == n % d
    IN  IF 2 * r < d THEN q
        ELSE IF 2 * r > d THEN q + 1
        ELSE IF q % 2 = 0 THEN q ELSE q + 1

\* the largest member of a non-empty set of integers
MaxOf(S) == CHOOSE t \in S : \A u \in S : u <= t

----------------------------------------------------------------------------
(* pandas operations the methods call *)

\* number of missing cells of column c
NullCount(t, c) == Cardinality({i \in 1..NRows(t) : isnull(t.rows[i][c])})

\* df.isnull().mean()[c] < threshold; the mean of an empty column is NaN,
\* and NaN < threshold is False
NullMeanBelow(t, c, threshold) ==
    /\ NRows(t) > 0
    /\ NullCount(t, c) * threshold[2] < threshold[1] * NRows(t)

\* df.nunique() raises (TypeError): it counts the distinct values of every
\* column of the frame, and a cell of some column cannot be hashed
nunique_raises(t) ==
    \E i \in 1..NRows(t) : \E c \in Range(t.cols) : t.rows[i][c] = ListValue

\* df.nunique()[c]: the number of distinct non-missing values of column c
nunique(t, c) ==
    Cardinality({t.rows[i][c] : i \in 1..NRows(t)} \ {NaN})

\* number of non-missing cells of row i
NonNullCount(t, i) == Cardinality({j \in 1..NCols(t) : ~isnull(t.rows[i][t.cols[j]])})

\* df.dropna(thresh=k, axis=0): keep the rows with at least k non-missing cells
dropna_thresh(t, k) == SelectRows(t, {i \in 1..NRows(t) : NonNullCount(t, i) >= k})

\* df.T.drop_duplicates().T: of the columns with equal values (missing cells
\* equal to each other) keep the first; an empty frame is returned as it is
T_drop_duplicates_T(t) ==
    IF NRows(t) = 0 \/ NCols(t) = 0 THEN t
    ELSE LET First(j) == \A k \in 1..(j - 1) : Column(t, t.cols[k]) # Column(t, t.cols[j])
             RECURSIVE Keep(_)
             Keep(j) == IF j > NCols(t) THEN <<>>
                        ELSE (IF First(j) THEN <<t.cols[j]>> ELSE <<>>) \o Keep(j + 1)
         IN  SelectColumns(t, Keep(1))

----------------------------------------------------------------------------
(* The record of a call *)

Snapshot == [train_data |-> train_data, test_data |-> test_data,
             x_train |-> x_train, x_test |-> x_test]

\* a call that returned self
Returned(op, args) == [op |-> op, args |-> args, raised |-> "", ret |-> "self"]

\* a call that raised
Raised(op, args, exc) == [op |-> op, args |-> args, raised |-> exc, ret |-> ""]

----------------------------------------------------------------------------
(* Clean: the drop operations *)

\* the assignments of a column drop: train_data is rebound to df[keep], then
\* test_data, when present, to its own df[keep], which raises KeyError when
\* the test table lacks one of the labels
AssignColumns(op, args, keep) ==
    /\ train_data' = SelectColumns(train_data, keep)
    /\ same_train' = FALSE
    /\ IF test_data = None
       THEN /\ UNCHANGED <<test_data, same_test>>
            /\ last' = Returned(op, args)
       ELSE IF HasColumns(test_data, keep)
       THEN /\ test_data' = SelectColumns(test_data, keep)
            /\ same_test' = FALSE
            /\ last' = Returned(op, args)
       ELSE /\ UNCHANGED <<test_data, same_test>>
            /\ last' = Raised(op, args, "KeyError")
    /\ UNCHANGED <<x_train, x_test>>

\* mutant: the validation forgets the lower end of the range
ThresholdOutOfRange_UpperOnly(threshold) == RatLT(Num(1), threshold)

\* threshold > 1 or threshold < 0
ThresholdOutOfRange(threshold) == RatLT(Num(1), threshold) \/ RatLT(threshold, Num(0))

\* mutant: a column missing exactly the threshold fraction is kept
criteria_meeting_columns_OrEqual(t, threshold) ==
    LET Meets(c) == /\ NRows(t) > 0
                    /\ NullCount(t, c) * threshold[2] <= threshold[1] * NRows(t)
    IN  SelectSeq(t.cols, Meets)

\* self.train_data.columns[self.train_data.isnull().mean() < threshold]
criteria_meeting_columns(t, threshold) ==
    LET Meets(c) == NullMeanBelow(t, c, threshold)
    IN  SelectSeq(t.cols, Meets)

drop_column_missing_threshold(threshold) ==
    /\ pre' = Snapshot
    /\ IF ThresholdOutOfRange(threshold)
       THEN /\ last' = Raised("drop_column_missing_threshold",
                              [threshold |-> threshold], "ValueError")
            /\ UNCHANGED <<train_data, test_data, x_train, x_test, same_train, same_test>>
       ELSE AssignColumns("drop_column_missing_threshold", [threshold |-> threshold],
                          criteria_meeting_columns(train_data, threshold))

\* mutant: a column with no value at all is kept
constant_keep_columns_OnlyOne(t) ==
    LET Keep(c) == nunique(t, c) # 1
    IN  SelectSeq(t.cols, Keep)

\* the columns whose nunique() is not in [0, 1]; self.train_data.nunique()
\* is evaluated inside the try of every column, and a column for which it
\* raises is reported and not kept
constant_keep_columns(t) ==
    LET Keep(c) == ~nunique_raises(t) /\ nunique(t, c) \notin {0, 1}
    IN  SelectSeq(t.cols, Keep)

drop_constant_columns ==
    /\ pre' = Snapshot
    /\ AssignColumns("drop_constant_columns", <<>>, constant_keep_columns(train_data))

\* the columns whose nunique() differs from the number of rows
unique_keep_columns(t) ==
    LET Keep(c) == nunique(t, c) # NRows(t)
    IN  SelectSeq(t.cols, Keep)

drop_unique_columns ==
    /\ pre' = Snapshot
    /\ AssignColumns("drop_unique_columns", <<>>, unique_keep_columns(train_data))

\* round(df.shape[1] * threshold)
row_thresh(t, threshold) == PyRound(NCols(t) * threshold[1], threshold[2])

drop_rows_missing_threshold(threshold) ==
    /\ pre' = Snapshot
    /\ IF ThresholdOutOfRange(threshold)
       THEN /\ last' = Raised("drop_rows_missing_threshold",
                              [threshold |-> threshold], "ValueError")
            /\ UNCHANGED <<train_data, test_data, x_train, x_test, same_train, same_test>>
       ELSE /\ train_data' = dropna_thresh(train_data, row_thresh(train_data, threshold))
            /\ same_train' = FALSE
            /\ IF test_data = None
               THEN UNCHANGED <<test_data, same_test>>
               ELSE /\ test_data' = dropna_thresh(test_data, row_thresh(test_data, threshold))
                    /\ same_test' = FALSE
            /\ last' = Returned("drop_rows_missing_threshold", [threshold |-> threshold])
            /\ UNCHANGED <<x_train, x_test>>

drop_duplicate_columns ==
    /\ pre' = Snapshot
    /\ train_data' = T_drop_duplicates_T(train_data)
    /\ same_train' = FALSE
    /\ IF test_data = None
       THEN UNCHANGED <<test_data, same_test>>
       ELSE /\ test_data' = T_drop_duplicates_T(test_data)
            /\ same_test' = FALSE
    /\ last' = Returned("drop_duplicate_columns", <<>>)
    /\ UNCHANGED <<x_train, x_test>>

----------------------------------------------------------------------------
(* Column selection *)

\* _input_columns(list_args, list_of_cols): the list when one is given,
\* otherwise the positional arguments
_input_columns(list_args, list_of_cols) ==
    IF list_of_cols # <<>> THEN list_of_cols ELSE list_args

\* the value of a keyword argument, or its default when it is not passed
KeywordOr(kwargs, key, default) ==
    IF \E p \in kwargs : p[1] = key
    THEN (CHOOSE p \in kwargs : p[1] = key)[2]
    ELSE default

----------------------------------------------------------------------------
(* Clean: mean, median and most-common imputation *)

RECURSIVE GCD(_, _)
GCD(a, b) == IF b = 0 THEN a ELSE GCD(b, a % b)

\* the rational n/d in lowest terms (n >= 0, d > 0)
RatNorm(n, d) == LET g == GCD(n, d) IN <<n \div g, d \div g>>

\* the non-missing values of column c, top to bottom
Present(t, c) ==
    LET IsValue(v) == ~isnull(v)
    IN  SelectSeq(Column(t, c), IsValue)

RECURSIVE RatSum(_)
RatSum(vals) ==
    IF vals = <<>> THEN <<0, 1>>
    ELSE LET h == Head(vals)
             r == RatSum(Tail(vals))
         IN  RatNorm(h[1] * r[2] + r[1] * h[2], h[2] * r[2])

\* the k-th smallest of the values
KthSmallest(vals, k) ==
    CHOOSE v \in Range(vals) :
        /\ Cardinality({i \in 1..Len(vals) : RatLT(vals[i], v)}) < k
        /\ k <= Cardinality({i \in 1..Len(vals) : ~RatLT(v, vals[i])})

\* the fill value of a strategy for a non-empty sequence of values:
\* the mean, the median (the mean of the two middle values when their number
\* is even), or the most frequent value (the smallest of them on a tie)
Statistic(strategy, vals) ==
    LET n == Len(vals)
        Count(v) == Cardinality({i \in 1..n : vals[i] = v})
    IN  CASE strategy = "mean" ->
                LET s == RatSum(vals) IN RatNorm(s[1], s[2] * n)
          [] strategy = "median" ->
                IF n % 2 = 1 THEN KthSmallest(vals, (n + 1) \div 2)
                ELSE LET lo == KthSmallest(vals, n \div 2)
                         hi == KthSmallest(vals, n \div 2 + 1)
                         s == RatSum(<<lo, hi>>)
                     IN  RatNorm(s[1], s[2] * 2)
          [] strategy = "most_frequent" ->
                CHOOSE v \in Range(vals) :
                    \A w \in Range(vals) :
                        Count(w) < Count(v) \/ (Count(w) = Count(v) /\ ~RatLT(w, v))

\* table t with the missing cells of each column c of cols set to fill[c]
FillColumns(t, cols, fill) ==
    [cols |-> t.cols,
     rows |-> [i \in 1..NRows(t) |->
                 [c \in Range(t.cols) |->
                     IF c \in cols /\ isnull(t.rows[i][c]) THEN fill[c] ELSE t.rows[i][c]]]]

\* num.replace_missing_mean_median_mode(x_train, x_test, list_of_cols,
\* strategy): the missing cells of the listed columns (of every numeric column
\* when none is listed) are filled, in both tables, with the statistic of the
\* train column.  The result is [raised, x_train, x_test]; a listed column
\* that a table lacks raises KeyError, a train column without any value has
\* no statistic and raises ValueError.
replace_missing_mean_median_mode(train, test, list_of_cols, strategy) ==
    LET cols == IF list_of_cols = <<>> THEN Range(train.cols) ELSE Range(list_of_cols)
        fill == [c \in cols |->
                    IF c \in Range(train.cols) /\ Present(train, c) # <<>>
                    THEN Statistic(strategy, Present(train, c)) ELSE NaN]
    IN  IF ~(cols \subseteq Range(train.cols))
            \/ (test # None /\ ~(cols \subseteq Range(test.cols)))
        THEN [raised |-> "KeyError", x_train |-> train, x_test |-> test]
        ELSE IF \E c \in cols : Present(train, c) = <<>>
        THEN [raised |-> "ValueError", x_train |-> train, x_test |-> test]
        ELSE [raised |-> "",
              x_train |-> FillColumns(train, cols, fill),
              x_test |-> IF test = None THEN None ELSE FillColumns(test, cols, fill)]

\* a call that returns without storing the tables of the helper
ImputeDropsResult(op, strategy, list_args, list_of_cols) ==
    /\ pre' = Snapshot
    /\ last' = Returned(op, [list_args |-> list_args, list_of_cols |-> list_of_cols])
    /\ UNCHANGED <<train_data, test_data, x_train, x_test, same_train, same_test>>

\* the body the three imputation methods share: resolve the columns, call the
\* helper on (train_data, test_data) and store the pair it returns; the
\* helper fills the tables it is given, so an attribute that names the same
\* table object shows the fill too
Impute(op, strategy, list_args, list_of_cols) ==
    LET args == [list_args |-> list_args, list_of_cols |-> list_of_cols]
        r == replace_missing_mean_median_mode(
                 train_data, test_data, _input_columns(list_args, list_of_cols), strategy)
    IN  /\ pre' = Snapshot
        /\ IF r.raised # ""
           THEN /\ last' = Raised(op, args, r.raised)
                /\ UNCHANGED <<train_data, test_data, x_train, x_test, same_train, same_test>>
           ELSE /\ train_data' = r.x_train
                /\ test_data' = r.x_test
                /\ x_train' = IF same_train THEN r.x_train ELSE x_train
                /\ x_test' = IF same_test THEN r.x_test ELSE x_test
                /\ UNCHANGED <<same_train, same_test>>
                /\ last' = Returned(op, args)

replace_missing_mean(list_args, list_of_cols) ==
    Impute("replace_missing_mean", "mean", list_args, list_of_cols)

\* mutant: replace_missing_median does not store what the helper returns
replace_missing_median_Unstored(list_args, list_of_cols) ==
    ImputeDropsResult("replace_missing_median", "median", list_args, list_of_cols)

replace_missing_median(list_args, list_of_cols) ==
    Impute("replace_missing_median", "median", list_args, list_of_cols)

replace_missing_mostcommon(list_args, list_of_cols) ==
    Impute("replace_missing_mostcommon", "most_frequent", list_args, list_of_cols)

----------------------------------------------------------------------------
(* Clean: replace_missing_indicator *)

\* df[name] = vals: an existing column is overwritten where it stands, a new
\* one is appended as the last column
SetColumn(t, name, vals) ==
    [cols |-> IF name \in Range(t.cols) THEN t.cols ELSE Append(t.cols, name),
     rows |-> [i \in 1..NRows(t) |->
                 [c \in Range(t.cols) \cup {name} |->
                     IF c = name THEN vals[i] ELSE t.rows[i][c]]]]

\* df.drop([col], axis=1)
DropColumn(t, col) ==
    LET Other(c) == c # col
    IN  SelectColumns(t, SelectSeq(t.cols, Other))

\* mutant: the two indicator values are exchanged
IndicatorValues_Swapped(t, col, missing_indicator, valid_indicator) ==
    [i \in 1..NRows(t) |->
        IF isnull(t.rows[i][col]) THEN valid_indicator ELSE missing_indicator]

\* [missing_indicator if x else valid_indicator for x in df[col].isnull()]
IndicatorValues(t, col, missing_indicator, valid_indicator) ==
    [i \in 1..NRows(t) |->
        IF isnull(t.rows[i][col]) THEN missing_indicator ELSE valid_indicator]

\* one pass of the loop body for column col.  st holds the four attributes,
\* the two identity flags and the exception raised so far.  Setting a column
\* changes the table object in place, so train_data (test_data) shows it while
\* it is the same object; drop() rebinds x_train (x_test) to a new table.
IndicatorStep(st, col, missing_indicator, valid_indicator, keep_col) ==
    IF ~HasColumns(st.x_train, <<col>>) THEN [st EXCEPT !.raised = "KeyError"]
    ELSE
    LET tr1 == SetColumn(st.x_train, col \o "_missing",
                         IndicatorValues(st.x_train, col, missing_indicator, valid_indicator))
        s1 == [st EXCEPT !.x_train = tr1,
                         !.train_data = IF st.same_train THEN tr1 ELSE @]
        s2 == IF keep_col THEN s1
              ELSE [s1 EXCEPT !.x_train = DropColumn(tr1, col), !.same_train = FALSE]
    IN  IF s2.x_test = None THEN s2
        ELSE IF ~HasColumns(s2.x_test, <<col>>) THEN [s2 EXCEPT !.raised = "KeyError"]
        ELSE
        LET te1 == SetColumn(s2.x_test, col \o "_missing",
                             IndicatorValues(s2.x_test, col, missing_indicator, valid_indicator))
            s3 == [s2 EXCEPT !.x_test = te1,
                             !.test_data = IF s2.same_test THEN te1 ELSE @]
        IN  IF keep_col THEN s3
            ELSE [s3 EXCEPT !.x_test = DropColumn(te1, col), !.same_test = FALSE]

\* for col in list_of_cols: ..., stopping at the first exception
RECURSIVE IndicatorLoop(_, _, _, _, _)
IndicatorLoop(st, list_of_cols, missing_indicator, valid_indicator, keep_col) ==
    IF list_of_cols = <<>> \/ st.raised # "" THEN st
    ELSE IndicatorLoop(
             IndicatorStep(st, Head(list_of_cols), missing_indicator, valid_indicator, keep_col),
             Tail(list_of_cols), missing_indicator, valid_indicator, keep_col)

replace_missing_indicator(list_args, list_of_cols, missing_indicator, valid_indicator, keep_col) ==
    LET args == [list_args |-> list_args, list_of_cols |-> list_of_cols,
                 missing_indicator |-> missing_indicator,
                 valid_indicator |-> valid_indicator, keep_col |-> keep_col]
        st0 == [x_train |-> x_train, x_test |-> x_test,
                train_data |-> train_data, test_data |-> test_data,
                same_train |-> same_train, same_test |-> same_test, raised |-> ""]
        st == IndicatorLoop(st0, _input_columns(list_args, list_of_cols),
                            missing_indicator, valid_indicator, keep_col)
    IN  /\ pre' = Snapshot
        /\ x_train' = st.x_train
        /\ x_test' = st.x_test
        /\ train_data' = st.train_data
        /\ test_data' = st.test_data
        /\ same_train' = st.same_train
        /\ same_test' = st.same_test
        /\ last' = IF st.raised = "" THEN Returned("replace_missing_indicator", args)
                   ELSE Raised("replace_missing_indicator", args, st.raised)

----------------------------------------------------------------------------
(* Clean: replace_missing_constant and replace_missing_new_category *)

\* a dict argument {column: value}
Dict(f) == [kind |-> "dict", map |-> f]

\* a list of columns
List(cols) == [kind |-> "list", cols |-> cols]

\* Python's truth value of the col_mapping argument: None and {} are false
Truthy(col_mapping) == col_mapping # None /\ DOMAIN col_mapping.map # {}

\* mutant: the column arguments are preferred to the mapping
ResolveSelector_ColumnsFirst(col_mapping, list_args, list_of_cols) ==
    IF _input_columns(list_args, list_of_cols) # <<>> \/ ~Truthy(col_mapping)
    THEN List(_input_columns(list_args, list_of_cols))
    ELSE col_mapping

\* if col_mapping: use it, else: _input_columns(list_args, list_of_cols)
ResolveSelector(col_mapping, list_args, list_of_cols) ==
    IF Truthy(col_mapping) THEN col_mapping
    ELSE List(_input_columns(list_args, list_of_cols))

\* cat.replace_missing_new_category(x_train, x_test, col_to_category,
\* constant): with a mapping every mapped column has its missing cells set to
\* its own value; with a list of columns they are set to the constant; with
\* no column at all every column is filled with the constant.  The result is
\* [raised, x_train, x_test]; a column that a table lacks raises KeyError.
cat_replace_missing_new_category(train, test, col_to_category, constant) ==
    LET cols == IF col_to_category.kind = "dict" THEN DOMAIN col_to_category.map
                ELSE IF col_to_category.cols # <<>> THEN Range(col_to_category.cols)
                ELSE Range(train.cols)
        fill == [c \in cols |->
                    IF col_to_category.kind = "dict" THEN col_to_category.map[c]
                    ELSE constant]
    IN  IF ~(cols \subseteq Range(train.cols))
            \/ (test # None /\ ~(cols \subseteq Range(test.cols)))
        THEN [raised |-> "KeyError", x_train |-> train, x_test |-> test]
        ELSE [raised |-> "",
              x_train |-> FillColumns(train, cols, fill),
              x_test |-> IF test = None THEN None ELSE FillColumns(test, cols, fill)]

\* self.x_train, self.x_test = cat.replace_missing_new_category(...): the
\* helper fills the tables it is given, so an attribute that names the same
\* table object shows the fill too
StoreFilled(op, args, r) ==
    IF r.raised # ""
    THEN /\ last' = Raised(op, args, r.raised)
         /\ UNCHANGED <<train_data, test_data, x_train, x_test, same_train, same_test>>
    ELSE /\ x_train' = r.x_train
         /\ x_test' = r.x_test
         /\ train_data' = IF same_train THEN r.x_train ELSE train_data
         /\ test_data' = IF same_test THEN r.x_test ELSE test_data
         /\ UNCHANGED <<same_train, same_test>>
         /\ last' = Returned(op, args)

\* the branch for a selector that is neither a dict nor a list is never
\* taken: ResolveSelector yields one or the other
replace_missing_constant(list_args, list_of_cols, constant, col_mapping) ==
    LET col_to_constant == ResolveSelector(col_mapping, list_args, list_of_cols)
        args == [list_args |-> list_args, list_of_cols |-> list_of_cols,
                 constant |-> constant, col_mapping |-> col_mapping,
                 col_to_category |-> col_to_constant]
    IN  /\ pre' = Snapshot
        /\ IF col_to_constant.kind = "dict"
           THEN StoreFilled("replace_missing_constant", args,
                    cat_replace_missing_new_category(x_train, x_test, col_to_constant, None))
           ELSE StoreFilled("replace_missing_constant", args,
                    cat_replace_missing_new_category(x_train, x_test, col_to_constant, constant))

replace_missing_new_category(list_args, list_of_cols, new_category, col_mapping) ==
    LET col_to_category == ResolveSelector(col_mapping, list_args, list_of_cols)
        args == [list_args |-> list_args, list_of_cols |-> list_of_cols,
                 constant |-> new_category, col_mapping |-> col_mapping,
                 col_to_category |-> col_to_category]
    IN  /\ pre' = Snapshot
        /\ StoreFilled("replace_missing_new_category", args,
               cat_replace_missing_new_category(x_train, x_test, col_to_category, new_category))

----------------------------------------------------------------------------
(* Clean: row removal on x_train / x_test *)

\* df.dropna(axis=0, subset=cols): keep the rows without a missing cell in
\* the columns cols (every row when cols is empty)
dropna_subset(t, cols) ==
    SelectRows(t, {i \in 1..NRows(t) : \A c \in Range(cols) : ~isnull(t.rows[i][c])})

replace_missing_remove_row(list_args, list_of_cols) ==
    LET args == [list_args |-> list_args, list_of_cols |-> list_of_cols]
        cols == _input_columns(list_args, list_of_cols)
    IN  /\ pre' = Snapshot
        /\ UNCHANGED <<train_data, test_data>>
        /\ IF ~HasColumns(x_train, cols)
           THEN /\ last' = Raised("replace_missing_remove_row", args, "KeyError")
                /\ UNCHANGED <<x_train, x_test, same_train, same_test>>
           ELSE /\ x_train' = dropna_subset(x_train, cols)
                /\ same_train' = FALSE
                /\ IF x_test = None
                   THEN /\ UNCHANGED <<x_test, same_test>>
                        /\ last' = Returned("replace_missing_remove_row", args)
                   ELSE IF ~HasColumns(x_test, cols)
                   THEN /\ UNCHANGED <<x_test, same_test>>
                        /\ last' = Raised("replace_missing_remove_row", args, "KeyError")
                   ELSE /\ x_test' = dropna_subset(x_test, cols)
                        /\ same_test' = FALSE
                        /\ last' = Returned("replace_missing_remove_row", args)

\* df.drop_duplicates(cols) for a non-empty list cols: of the rows with equal
\* values in the columns cols (missing cells equal to each other) keep the
\* first; an empty frame is returned as it is
drop_duplicates(t, cols) ==
    IF NRows(t) = 0 \/ NCols(t) = 0 THEN t
    ELSE SelectRows(t, {i \in 1..NRows(t) :
                          \A j \in 1..(i - 1) :
                              \E c \in Range(cols) : t.rows[j][c] # t.rows[i][c]})

\* whether df.drop_duplicates(cols) raises KeyError
drop_duplicates_fails(t, cols) ==
    NRows(t) > 0 /\ NCols(t) > 0 /\ ~HasColumns(t, cols)

\* the train result is stored in x_train; the test branch is entered when
\* x_test is present and rebinds test_data from test_data
drop_duplicate_rows(list_args, list_of_cols) ==
    LET args == [list_args |-> list_args, list_of_cols |-> list_of_cols]
        cols == _input_columns(list_args, list_of_cols)
    IN  /\ pre' = Snapshot
        /\ UNCHANGED <<train_data, x_test>>
        /\ IF drop_duplicates_fails(x_train, cols)
           THEN /\ last' = Raised("drop_duplicate_rows", args, "KeyError")
                /\ UNCHANGED <<x_train, test_data, same_train, same_test>>
           ELSE /\ x_train' = drop_duplicates(x_train, cols)
                /\ same_train' = FALSE
                /\ IF x_test = None
                   THEN /\ UNCHANGED <<test_data, same_test>>
                        /\ last' = Returned("drop_duplicate_rows", args)
                   ELSE IF test_data = None
                   THEN /\ UNCHANGED <<test_data, same_test>>
                        /\ last' = Raised("drop_duplicate_rows", args, "AttributeError")
                   ELSE IF drop_duplicates_fails(test_data, cols)
                   THEN /\ UNCHANGED <<test_data, same_test>>
                        /\ last' = Raised("drop_duplicate_rows", args, "KeyError")
                   ELSE /\ test_data' = drop_duplicates(test_data, cols)
                        /\ same_test' = FALSE
                        /\ last' = Returned("drop_duplicate_rows", args)

----------------------------------------------------------------------------
(* Clean: replace_missing_knn *)

\* the square of the difference of two rationals
SqDiff(u, v) ==
    LET d == u[1] * v[2] - v[1] * u[2]
    IN  RatNorm(d * d, u[2] * v[2] * u[2] * v[2])

\* the columns in which rows i and j of t both have a value
Common(t, i, j) ==
    {c \in Range(t.cols) : ~isnull(t.rows[i][c]) /\ ~isnull(t.rows[j][c])}

\* nan_euclidean distance of rows i and j, squared and without the constant
\* factor (number of columns): the mean squared difference over the common
\* columns; the rows must have a common column
Dist2(t, i, j) ==
    LET s == RatSum([k \in 1..NCols(t) |->
                        IF t.cols[k] \in Common(t, i, j)
                        THEN SqDiff(t.rows[i][t.cols[k]], t.rows[j][t.cols[k]])
                        ELSE <<0, 1>>])
    IN  RatNorm(s[1], s[2] * Cardinality(Common(t, i, j)))

\* donor j is at most as far from row i as donor l (a distance that is nan,
\* for rows without a common column, counts as the largest)
NotFarther(t, i, j, l) ==
    \/ Common(t, i, l) = {}
    \/ Common(t, i, j) # {} /\ ~RatLT(Dist2(t, i, l), Dist2(t, i, j))

\* the mean of column c over the rows in the non-empty set N
MeanOver(t, c, N) ==
    LET s == RatSum([k \in 1..NRows(t) |-> IF k \in N THEN t.rows[k][c] ELSE <<0, 1>>])
    IN  RatNorm(s[1], s[2] * Cardinality(N))

\* KNNImputer(n_neighbors): the values the missing cell (i, c) can get, given
\* that column c has a value in some row.  The donors are the rows with a
\* value in c; the cell gets the mean of c over the n_neighbors nearest
\* donors (over all donors when they are fewer), where equally distant
\* donors can be taken in any order, or the mean of the column when no donor
\* has a column in common with row i
KnnValues(t, i, c, n_neighbors) ==
    LET donors == {j \in 1..NRows(t) : ~isnull(t.rows[j][c])}
        n == IF n_neighbors < Cardinality(donors) THEN n_neighbors ELSE Cardinality(donors)
    IN  IF \A j \in donors : Common(t, i, j) = {}
        THEN {MeanOver(t, c, donors)}
        ELSE {MeanOver(t, c, N) :
                N \in {M \in SUBSET donors :
                          /\ Cardinality(M) = n
                          /\ \A j \in M : \A l \in donors \ M : NotFarther(t, i, j, l)}}

\* a column of t has no value in any row: fit_transform leaves it out
HasEmptyColumn(t) == \E c \in Range(t.cols) : \A i \in 1..NRows(t) : isnull(t.rows[i][c])

\* pd.DataFrame(data=knn.fit_transform(t.values), columns=t.columns) for a
\* table without an empty column: the tables that can result
KnnTables(t, n_neighbors) ==
    LET missing == {p \in (1..NRows(t)) \X Range(t.cols) : isnull(t.rows[p[1]][p[2]])}
        choices == UNION {KnnValues(t, p[1], p[2], n_neighbors) : p \in missing}
    IN  {[cols |-> t.cols,
          rows |-> [i \in 1..NRows(t) |->
                      [c \in Range(t.cols) |->
                          IF <<i, c>> \in missing THEN g[<<i, c>>] ELSE t.rows[i][c]]]] :
            g \in {h \in [missing -> choices] :
                      \A p \in missing : h[p] \in KnnValues(t, p[1], p[2], n_neighbors)}}

\* neighbors = knn_kwargs.pop("n_neighbors", 5)
knn_neighbors(k, knn_kwargs) == KeywordOr(knn_kwargs, "n_neighbors", 5)

\* the train table is imputed; the test table is imputed, from its own rows,
\* inside "if self.test_data is not None"; both results are then made into
\* frames and assigned.  A result with fewer columns than the table cannot be
\* made into a frame (ValueError); without a test table the name
\* test_knn_transformed is unbound at the second assignment
\* (UnboundLocalError), after train_data has been assigned.
replace_missing_knn(k, knn_kwargs) ==
    LET neighbors == knn_neighbors(k, knn_kwargs)
        args == [k |-> k, knn_kwargs |-> knn_kwargs, neighbors |-> neighbors]
    IN  /\ pre' = Snapshot
        /\ UNCHANGED <<x_train, x_test>>
        /\ IF HasEmptyColumn(train_data)
           THEN /\ last' = Raised("replace_missing_knn", args, "ValueError")
                /\ UNCHANGED <<train_data, test_data, same_train, same_test>>
           ELSE \E train_knn_transformed \in KnnTables(train_data, neighbors) :
                /\ train_data' = train_knn_transformed
                /\ same_train' = FALSE
                /\ IF test_data = None
                   THEN /\ last' = Raised("replace_missing_knn", args, "UnboundLocalError")
                        /\ UNCHANGED <<test_data, same_test>>
                   ELSE IF HasEmptyColumn(test_data)
                   THEN /\ last' = Raised("replace_missing_knn", args, "ValueError")
                        /\ UNCHANGED <<test_data, same_test>>
                   ELSE \E test_knn_transformed \in KnnTables(test_data, neighbors) :
                        /\ test_data' = test_knn_transformed
                        /\ same_test' = FALSE
                        /\ last' = Returned("replace_missing_knn", args)

----------------------------------------------------------------------------
(* Clean: replace_missing_interpolate *)

\* the positions before i (after i) where the sequence has a value
ValidBefore(vals, i) == {p \in 1..(i - 1) : ~isnull(vals[p])}
ValidAfter(vals, i) == {q \in (i + 1)..Len(vals) : ~isnull(vals[q])}

\* the smallest member of a non-empty set of integers
MinOf(S) == CHOOSE t \in S : \A u \in S : t <= u

\* Series.interpolate(method): "linear" puts a missing cell on the line
\* between the nearest values above and below it (rows equally spaced) and
\* repeats the last value below the last one; "pad" repeats the nearest value
\* above.  A missing cell with no value above it stays missing.
interpolate(vals, method) ==
    [i \in 1..Len(vals) |->
        IF ~isnull(vals[i]) \/ ValidBefore(vals, i) = {} THEN vals[i]
        ELSE LET p == MaxOf(ValidBefore(vals, i))
             IN  IF method = "pad" \/ ValidAfter(vals, i) = {} THEN vals[p]
                 ELSE LET q == MinOf(ValidAfter(vals, i))
                          s == RatSum(<<RatNorm(vals[p][1] * (q - i), vals[p][2]),
                                        RatNorm(vals[q][1] * (i - p), vals[q][2])>>)
                      IN  RatNorm(s[1], s[2] * (q - p))]

\* one pass of the loop body for column col: the column of x_train, then of
\* x_test when present, is set to its interpolation (in place)
InterpolateStep(st, col, method) ==
    IF ~HasColumns(st.x_train, <<col>>) THEN [st EXCEPT !.raised = "KeyError"]
    ELSE
    LET tr1 == SetColumn(st.x_train, col, interpolate(Column(st.x_train, col), method))
        s1 == [st EXCEPT !.x_train = tr1,
                         !.train_data = IF st.same_train THEN tr1 ELSE @]
    IN  IF s1.x_test = None THEN s1
        ELSE IF ~HasColumns(s1.x_test, <<col>>) THEN [s1 EXCEPT !.raised = "KeyError"]
        ELSE
        LET te1 == SetColumn(s1.x_test, col, interpolate(Column(s1.x_test, col), method))
        IN  [s1 EXCEPT !.x_test = te1,
                       !.test_data = IF s1.same_test THEN te1 ELSE @]

\* for col in list_of_cols: ..., stopping at the first exception
RECURSIVE InterpolateLoop(_, _, _)
InterpolateLoop(st, list_of_cols, method) ==
    IF list_of_cols = <<>> \/ st.raised # "" THEN st
    ELSE InterpolateLoop(InterpolateStep(st, Head(list_of_cols), method),
                         Tail(list_of_cols), method)

\* method = inter_kwargs.pop("method", "linear"): the argument method is a
\* named parameter, so inter_kwargs never holds the key "method" and the
\* value of the parameter is replaced by the default
interpolate_method(method, inter_kwargs) == KeywordOr(inter_kwargs, "method", "linear")

replace_missing_interpolate(list_args, list_of_cols, method, inter_kwargs) ==
    LET args == [list_args |-> list_args, list_of_cols |-> list_of_cols,
                 method |-> method, inter_kwargs |-> inter_kwargs]
        st0 == [x_train |-> x_train, x_test |-> x_test,
                train_data |-> train_data, test_data |-> test_data, raised |-> "",
                same_train |-> same_train, same_test |-> same_test]
        st == InterpolateLoop(st0, _input_columns(list_args, list_of_cols),
                              interpolate_method(method, inter_kwargs))
    IN  /\ pre' = Snapshot
        /\ x_train' = st.x_train
        /\ x_test' = st.x_test
        /\ train_data' = st.train_data
        /\ test_data' = st.test_data
        /\ UNCHANGED <<same_train, same_test>>
        /\ last' = IF st.raised = "" THEN Returned("replace_missing_interpolate", args)
                   ELSE Raised("replace_missing_interpolate", args, st.raised)

----------------------------------------------------------------------------
(* Clean: replace_missing_random_discrete *)

\* mutant: the values are those of every column of the table
ChoiceValues_AnyColumn(t, col) ==
    UNION {Range(Present(t, c)) : c \in Range(t.cols)}

\* probabilities.index: the values that x_train[col].value_counts() counts,
\* each of them with a probability above 0
ChoiceValues(t, col) == Range(Present(t, col))

\* t.loc[t[col].isnull(), col] = np.random.choice(values, size=...): the
\* tables that can result, one for each way to give every missing cell of
\* the column one of the values
RandomFills(t, col, values) ==
    {SetColumn(t, col, [i \in 1..NRows(t) |->
                           IF isnull(t.rows[i][col]) THEN g[i] ELSE t.rows[i][col]]) :
        g \in [1..NRows(t) -> values]}

\* np.random.choice raises ValueError: values are to be drawn for the missing
\* cells of the column, and there is no value to draw from
CannotChoose(t, col, values) ==
    values = {} /\ \E i \in 1..NRows(t) : isnull(t.rows[i][col])

\* one pass of the loop body for column col: the states that can result from
\* st.  The cells are set in place; the test table is filled with the values
\* counted in the train column.
RandomDiscreteStep(st, col) ==
    IF ~HasColumns(st.x_train, <<col>>) THEN {[st EXCEPT !.raised = "KeyError"]}
    ELSE
    LET values == ChoiceValues(st.x_train, col) IN
    IF CannotChoose(st.x_train, col, values) THEN {[st EXCEPT !.raised = "ValueError"]}
    ELSE UNION {
        LET s1 == [st EXCEPT !.x_train = tr1,
                             !.train_data = IF st.same_train THEN tr1 ELSE @]
        IN  IF s1.x_test = None THEN {s1}
            ELSE IF ~HasColumns(s1.x_test, <<col>>) THEN {[s1 EXCEPT !.raised = "KeyError"]}
            ELSE IF CannotChoose(s1.x_test, col, values)
            THEN {[s1 EXCEPT !.raised = "ValueError"]}
            ELSE {[s1 EXCEPT !.x_test = te1,
                             !.test_data = IF s1.same_test THEN te1 ELSE @] :
                     te1 \in RandomFills(s1.x_test, col, values)} :
        tr1 \in RandomFills(st.x_train, col, values)}

\* for col in list_of_cols: ..., from every state of sts, a state that has
\* raised staying as it is
RECURSIVE RandomDiscreteLoop(_, _)
RandomDiscreteLoop(sts, list_of_cols) ==
    IF list_of_cols = <<>> THEN sts
    ELSE RandomDiscreteLoop(
             UNION {IF st.raised # "" THEN {st} ELSE RandomDiscreteStep(st, Head(list_of_cols)) :
                       st \in sts},
             Tail(list_of_cols))

replace_missing_random_discrete(list_args, list_of_cols) ==
    LET args == [list_args |-> list_args, list_of_cols |-> list_of_cols]
        st0 == [x_train |-> x_train, x_test |-> x_test,
                train_data |-> train_data, test_data |-> test_data, raised |-> "",
                same_train |-> same_train, same_test |-> same_test]
    IN  \E st \in RandomDiscreteLoop({st0}, _input_columns(list_args, list_of_cols)) :
        /\ pre' = Snapshot
        /\ x_train' = st.x_train
        /\ x_test' = st.x_test
        /\ train_data' = st.train_data
        /\ test_data' = st.test_data
        /\ UNCHANGED <<same_train, same_test>>
        /\ last' = IF st.raised = "" THEN Returned("replace_missing_random_discrete", args)
                   ELSE Raised("replace_missing_random_discrete", args, st.raised)

----------------------------------------------------------------------------
(* ClassificationModelAnalysis *)

\* mutant: the positions that differ are counted
CorrectCount_Mismatches(y_true, y_pred) ==
    Cardinality({i \in 1..Len(y_true) : y_true[i] # y_pred[i]})

\* number of positions where the two sequences of equal length agree
CorrectCount(y_true, y_pred) ==
    Cardinality({i \in 1..Len(y_true) : y_true[i] = y_pred[i]})

\* metrics.accuracy_score(y_true, y_pred, normalize=True): the fraction of
\* positions where the prediction equals the label, or their number when
\* normalize is false; sequences of different lengths raise ValueError
accuracy_score(y_true, y_pred, kwargs) ==
    IF Len(y_true) # Len(y_pred) THEN [raised |-> "ValueError", value |-> NaN]
    ELSE IF KeywordOr(kwargs, "normalize", TRUE)
    THEN [raised |-> "", value |-> RatNorm(CorrectCount(y_true, y_pred), Len(y_true))]
    ELSE [raised |-> "", value |-> <<CorrectCount(y_true, y_pred), 1>>]

\* return metrics.accuracy_score(self.y_test, self.y_pred, **kwargs)
accuracy(kwargs) ==
    LET r == accuracy_score(analysis.y_test, analysis.y_pred, kwargs)
    IN  /\ pre' = analysis
        /\ last' = [op |-> "accuracy", args |-> kwargs, raised |-> r.raised, ret |-> r.value]
        /\ calls < MaxCalls
        /\ calls' = calls + 1
        /\ UNCHANGED <<analysis, train_data, test_data, x_train, x_test, same_train, same_test>>

\* hasattr(self.model, "decision_function")
HasDecisionFunction(model) == model.decision_function

\* mutant: the cached predictions are scored
DecisionScores_Predictions(a) == a.y_pred

\* self.model.decision_function(self.x_test): one score for each held-out row
DecisionScores(a) == a.model.output

\* the part of the average-precision sum for the thresholds in ts, taken in
\* descending order: at threshold t the precision among the rows scored at
\* least t, weighted by the share of the positive rows that are scored t
RECURSIVE PrecisionRecallSum(_, _, _, _)
PrecisionRecallSum(y_true, y_score, pos_label, ts) ==
    IF ts = {} THEN <<0, 1>>
    ELSE LET t == MaxOf(ts)
             n == Len(y_true)
             tps == Cardinality({i \in 1..n : y_score[i] >= t /\ y_true[i] = pos_label})
             all == Cardinality({i \in 1..n : y_score[i] >= t})
             gain == Cardinality({i \in 1..n : y_score[i] = t /\ y_true[i] = pos_label})
             positives == Cardinality({i \in 1..n : y_true[i] = pos_label})
             rest == PrecisionRecallSum(y_true, y_score, pos_label, ts \ {t})
         IN  RatSum(<<RatNorm(gain * tps, positives * all), rest>>)

\* metrics.average_precision_score(y_true, y_score, pos_label=1): the set of
\* values the library can return.  Without a positive row the recall is
\* undefined: the result is nan or 0.0 (with a warning), depending on the
\* release of the library.
average_precision_score(y_true, y_score, kwargs) ==
    LET pos_label == KeywordOr(kwargs, "pos_label", 1)
    IN  IF \A i \in 1..Len(y_true) : y_true[i] # pos_label
        THEN {NaN, <<0, 1>>}
        ELSE {PrecisionRecallSum(y_true, y_score, pos_label, Range(y_score))}

\* if hasattr(self.model, "decision_function"): return
\* metrics.average_precision_score(self.y_test,
\* self.model.decision_function(self.x_test), **kwargs) else: return np.nan
average_precision(kwargs) ==
    /\ pre' = analysis
    /\ \E v \in IF HasDecisionFunction(analysis.model)
                THEN average_precision_score(analysis.y_test, DecisionScores(analysis), kwargs)
                ELSE {NaN} :
          last' = [op |-> "average_precision", args |-> kwargs, raised |-> "", ret |-> v]
    /\ calls < MaxCalls
    /\ calls' = calls + 1
    /\ UNCHANGED <<analysis, train_data, test_data, x_train, x_test, same_train, same_test>>

----------------------------------------------------------------------------
(* Inputs *)

Values == {NaN, Num(1), Num(2)}

InitialColumns == <<"a", "b">>

\* the tables with the given labels and n rows
TablesOver(labels, n) ==
    {[cols |-> labels, rows |-> r] : r \in [1..n -> [Range(labels) -> Values]]}

Tables(n) == TablesOver(InitialColumns, n)

\* a table that already has a column named like an indicator column
IndicatorColumns == <<"a", "a_missing">>

\* (positional columns, list_of_cols) for replace_missing_indicator
IndicatorColumnArgs ==
    {<<<<>>, <<>>>>, <<<<"a">>, <<>>>>, <<<<>>, <<"a_missing">>>>,
     <<<<"a_missing">>, <<"a", "a_missing">>>>}

\* (missing_indicator, valid_indicator): the defaults
Indicators == {<<Num(1), Num(0)>>}

\* thresholds below 0, at 0, inside (0,1), at 1 and above 1
Thresholds == {<<0 - 1, 4>>, <<0, 4>>, <<1, 4>>, <<2, 4>>, <<3, 4>>, <<4, 4>>, <<5, 4>>}

\* (positional columns, list_of_cols): none given, positional only, and both
ColumnArgs == {<<<<>>, <<>>>>, <<<<"a">>, <<>>>>, <<<<"b">>, <<"a", "b">>>>}

\* col_mapping: not given, an empty dict, a dict for both columns
Mappings == {None, Dict(<<>>), Dict([c \in {"a", "b"} |-> IF c = "a" THEN Num(7) ELSE Num(8)])}

\* (positional columns, list_of_cols) for the constant fills
FillColumnArgs == {<<<<>>, <<>>>>, <<<<"b">>, <<>>>>, <<<<"b">>, <<"a">>>>}

\* the constant / new_category argument
FillConstants == {Num(0)}

----------------------------------------------------------------------------
(* The wrapper *)

\* the wrapper holds the dataset pair it was constructed with, under both
\* pairs of attribute names; a test table, when given, has one row

\* no model analysis is under way
NoAnalysis == [none |-> TRUE]

InitPair(labels) ==
    /\ analysis = NoAnalysis
    /\ train_data \in TablesOver(labels, MaxRows)
    /\ test_data \in {None} \cup TablesOver(labels, 1)
    /\ x_train = train_data
    /\ x_test = test_data
    /\ same_train = TRUE
    /\ same_test = TRUE
    /\ pre = [train_data |-> train_data, test_data |-> test_data,
              x_train |-> x_train, x_test |-> x_test]
    /\ last = [op |-> "init", args |-> <<>>, raised |-> "", ret |-> ""]
    /\ calls = 0

InitWrapper == InitPair(InitialColumns)

\* the tables of n rows over the labels whose cells may hold lists
ObjectTables(labels, n) ==
    {[cols |-> labels, rows |-> r] :
        r \in [1..n -> [Range(labels) -> Values \cup {ListValue}]]}

\* the wrapper constructed with a train table whose cells may hold lists
InitObjects ==
    /\ analysis = NoAnalysis
    /\ train_data \in ObjectTables(InitialColumns, MaxRows)
    /\ test_data \in {None} \cup TablesOver(InitialColumns, 1)
    /\ x_train = train_data
    /\ x_test = test_data
    /\ same_train = TRUE
    /\ same_test = TRUE
    /\ pre = [train_data |-> train_data, test_data |-> test_data,
              x_train |-> x_train, x_test |-> x_test]
    /\ last = [op |-> "init", args |-> <<>>, raised |-> "", ret |-> ""]
    /\ calls = 0

\* one more call on the wrapper
Call == calls < MaxCalls /\ calls' = calls + 1 /\ UNCHANGED analysis

NextDrop ==
    \/ \E threshold \in Thresholds : Call /\ drop_column_missing_threshold(threshold)
    \/ Call /\ drop_constant_columns
    \/ Call /\ drop_unique_columns
    \/ \E threshold \in Thresholds : Call /\ drop_rows_missing_threshold(threshold)
    \/ Call /\ drop_duplicate_columns

\* the wrapper under its drop operations
SpecDrop == InitWrapper /\ [][NextDrop]_vars

NextImpute ==
    \/ \E ca \in ColumnArgs : Call /\ replace_missing_mean(ca[1], ca[2])
    \/ \E ca \in ColumnArgs : Call /\ replace_missing_median(ca[1], ca[2])
    \/ \E ca \in ColumnArgs : Call /\ replace_missing_mostcommon(ca[1], ca[2])

\* the wrapper under its mean, median and most-common imputation
SpecImpute == InitWrapper /\ [][NextImpute]_vars

NextIndicator ==
    \E ca \in IndicatorColumnArgs, ind \in Indicators, keep_col \in BOOLEAN :
        Call /\ replace_missing_indicator(ca[1], ca[2], ind[1], ind[2], keep_col)

\* the wrapper under replace_missing_indicator, on tables that have a column
\* "a" and a column "a_missing"
SpecIndicator == InitPair(IndicatorColumns) /\ [][NextIndicator]_vars

NextConstant ==
    \/ \E ca \in FillColumnArgs, constant \in FillConstants, col_mapping \in Mappings :
          Call /\ replace_missing_constant(ca[1], ca[2], constant, col_mapping)
    \/ \E ca \in FillColumnArgs, new_category \in FillConstants, col_mapping \in Mappings :
          Call /\ replace_missing_new_category(ca[1], ca[2], new_category, col_mapping)

\* the wrapper under replace_missing_constant and replace_missing_new_category
SpecConstant == InitWrapper /\ [][NextConstant]_vars

NextConstantColumns == Call /\ drop_constant_columns

\* drop_constant_columns on train tables whose cells may hold lists
SpecConstantColumns == InitObjects /\ [][NextConstantColumns]_vars

\* (positional columns, list_of_cols) for the row removals
RowColumnArgs == {<<<<"a">>, <<>>>>, <<<<"b">>, <<"a", "b">>>>}

NextRows ==
    \/ \E ca \in RowColumnArgs \cup {<<<<>>, <<>>>>} :
          Call /\ replace_missing_remove_row(ca[1], ca[2])
    \/ \E ca \in RowColumnArgs : Call /\ drop_duplicate_rows(ca[1], ca[2])

\* the wrapper constructed with a test table as long as the train table
InitRows ==
    /\ analysis = NoAnalysis
    /\ train_data \in TablesOver(InitialColumns, MaxRows)
    /\ test_data \in {None} \cup TablesOver(InitialColumns, MaxRows)
    /\ x_train = train_data
    /\ x_test = test_data
    /\ same_train = TRUE
    /\ same_test = TRUE
    /\ pre = [train_data |-> train_data, test_data |-> test_data,
              x_train |-> x_train, x_test |-> x_test]
    /\ last = [op |-> "init", args |-> <<>>, raised |-> "", ret |-> ""]
    /\ calls = 0

\* the wrapper under the row removals
SpecRows == InitRows /\ [][NextRows]_vars

\* the wrapper constructed with a train table of MaxSeriesRows rows
InitSeries ==
    /\ analysis = NoAnalysis
    /\ train_data \in TablesOver(InitialColumns, MaxSeriesRows)
    /\ test_data \in {None} \cup TablesOver(InitialColumns, 1)
    /\ x_train = train_data
    /\ x_test = test_data
    /\ same_train = TRUE
    /\ same_test = TRUE
    /\ pre = [train_data |-> train_data, test_data |-> test_data,
              x_train |-> x_train, x_test |-> x_test]
    /\ last = [op |-> "init", args |-> <<>>, raised |-> "", ret |-> ""]
    /\ calls = 0

\* the argument k: not given (the default 5), 1 or 2
KnnK == {5, 1, 2}

\* the other keyword arguments: none, or n_neighbors
KnnKwargs == {{}, {<<"n_neighbors", 1>>}}

NextKnn ==
    \E k \in KnnK, knn_kwargs \in KnnKwargs : Call /\ replace_missing_knn(k, knn_kwargs)

\* the wrapper under replace_missing_knn
SpecKnn == InitSeries /\ [][NextKnn]_vars

\* the interpolation methods passed
InterpolationMethods == {"linear", "pad"}

NextInterpolate ==
    \E ca \in ColumnArgs, method \in InterpolationMethods :
        Call /\ replace_missing_interpolate(ca[1], ca[2], method, {})

\* the wrapper under replace_missing_interpolate
SpecInterpolate == InitSeries /\ [][NextInterpolate]_vars

NextRandomDiscrete ==
    \E ca \in ColumnArgs : Call /\ replace_missing_random_discrete(ca[1], ca[2])

\* the wrapper under replace_missing_random_discrete
SpecRandomDiscrete == InitWrapper /\ [][NextRandomDiscrete]_vars

\* every operation of the wrapper modelled here
Next ==
    \/ NextDrop
    \/ NextImpute
    \/ NextConstant
    \/ NextIndicator
    \/ NextRows
    \/ NextRandomDiscrete
    \/ NextKnn
    \/ NextInterpolate

\* the wrapper under all its operations
Spec == InitWrapper /\ [][Next]_vars

\* the class labels
Labels == {0, 1}

\* the pairs of sequences of 1 to n labels of one length
LabelPairs(n) ==
    UNION {[1..k -> Labels] \X [1..k -> Labels] : k \in 1..n}

\* the scores a decision function gives
Scores == {1, 2}

\* the models for n held-out rows: one without a decision function, and one
\* for each output a decision function can have on the held-out features
Models(n) ==
    {[decision_function |-> FALSE]}
        \cup {[decision_function |-> TRUE, output |-> s] : s \in [1..n -> Scores]}

\* an analysis object after construction: a model that has or lacks a decision
\* function, the held-out labels and the predictions cached for the same rows
InitAnalysis ==
    /\ \E yy \in LabelPairs(MaxLabels) : \E m \in Models(Len(yy[1])) :
          analysis = [model |-> m, y_test |-> yy[1], y_pred |-> yy[2]]
    /\ pre = analysis
    /\ last = [op |-> "init", args |-> {}, raised |-> "", ret |-> <<>>]
    /\ calls = 0
    /\ train_data = None /\ test_data = None /\ x_train = None /\ x_test = None
    /\ same_train = TRUE /\ same_test = TRUE

\* the keyword arguments passed to accuracy
AccuracyKwargs == {{}, {<<"normalize", TRUE>>}, {<<"normalize", FALSE>>}}

\* the keyword arguments passed to average_precision
PrecisionKwargs == {{}, {<<"pos_label", 0>>}}

NextAnalysis ==
    \/ \E kwargs \in AccuracyKwargs : accuracy(kwargs)
    \/ \E kwargs \in PrecisionKwargs : average_precision(kwargs)

\* the metric reporter
SpecAnalysis == InitAnalysis /\ [][NextAnalysis]_vars

----------------------------------------------------------------------------
(* Properties *)

\* the labels of a and of b are the same set
SameColumnSet(a, b) == Range(a.cols) = Range(b.cols)

\* the dataset pair before the last call was train-only or shared its labels
PairWasConsistent ==
    pre.test_data = None \/ SameColumnSet(pre.train_data, pre.test_data)

\* position of label c in the sequence s
Pos(s, c) == CHOOSE k \in 1..Len(s) : s[k] = c

\* s lists some of the labels of t, each once, in the order t has them
InOrderOf(s, t) ==
    /\ Range(s) \subseteq Range(t)
    /\ \A i, j \in 1..Len(s) : i < j => Pos(t, s[i]) < Pos(t, s[j])

\* table after holds exactly the columns kept of table before, in before's
\* order, with every row and every value of those columns as before
ReducedTo(after, before, kept) ==
    /\ Range(after.cols) = kept
    /\ InOrderOf(after.cols, before.cols)
    /\ NRows(after) = NRows(before)
    /\ \A c \in kept : Column(after, c) = Column(before, c)

\* the threshold is strictly below 0 or strictly above 1
OutsideUnitInterval(threshold) == threshold[1] < 0 \/ threshold[1] > threshold[2]

ThresholdOps == {"drop_column_missing_threshold", "drop_rows_missing_threshold"}

\* C1: a threshold strictly below 0 or strictly above 1 makes both threshold
\* drops raise the validation error with all four tables as they were; the
\* thresholds 0 and 1 raise no validation error, and raise nothing at all on
\* a dataset pair that shares its labels
C1_ThresholdValidation ==
    last.op \in ThresholdOps =>
        LET threshold == last.args.threshold IN
        /\ OutsideUnitInterval(threshold) =>
              /\ last.raised = "ValueError"
              /\ Snapshot = pre
        /\ (threshold[1] = 0 \/ threshold[1] = threshold[2]) =>
              /\ last.raised # "ValueError"
              /\ PairWasConsistent => last.raised = ""

\* C1 witness: drop_rows_missing_threshold(-1/4) was called with a test table
C1_Witness ==
    /\ last.op = "drop_rows_missing_threshold"
    /\ last.args.threshold[1] < 0
    /\ last.raised = "ValueError"
    /\ test_data # None

ColumnDropOps == {"drop_column_missing_threshold", "drop_constant_columns",
                  "drop_unique_columns", "drop_duplicate_columns"}

\* C2: a column drop that starts from a train and a test table with the same
\* column set ends with a train and a test table with the same column set
C2_ColumnDropsKeepSharedColumns ==
    (/\ last.op \in ColumnDropOps
     /\ pre.test_data # None
     /\ SameColumnSet(pre.train_data, pre.test_data))
        => SameColumnSet(train_data, test_data)

\* number of distinct non-missing values of column c
DistinctPresent(t, c) == Cardinality({v \in {t.rows[i][c] : i \in 1..NRows(t)} : v # NaN})

\* C3: drop_constant_columns removes from the train table exactly the columns
\* with 0 or 1 distinct non-missing values and keeps the others, in order and
\* unchanged; a test table that shares the labels is reduced to the same
\* columns, and the call returns
C3_DropConstantColumns ==
    last.op = "drop_constant_columns" =>
        LET kept == {c \in Range(pre.train_data.cols) :
                        DistinctPresent(pre.train_data, c) \notin {0, 1}} IN
        /\ ReducedTo(train_data, pre.train_data, kept)
        /\ PairWasConsistent =>
              /\ last.raised = ""
              /\ IF pre.test_data = None THEN test_data = None
                 ELSE /\ ReducedTo(test_data, pre.test_data, kept)
                      /\ test_data.cols = train_data.cols

\* C3 witness: of two train columns one was constant and removed, the other
\* kept, and the test table kept a column that is constant in the test table
C3_Witness ==
    /\ last.op = "drop_constant_columns"
    /\ pre.test_data # None
    /\ NCols(pre.train_data) = 2
    /\ NCols(train_data) = 1
    /\ NCols(test_data) = 1
    /\ \E c \in Range(pre.train_data.cols) : DistinctPresent(pre.train_data, c) = 0

\* the fraction of missing values of column c is at least the threshold
FractionMissingAtLeast(t, c, threshold) ==
    NullCount(t, c) * threshold[2] >= threshold[1] * NRows(t)

\* C4: for a threshold in [0,1] drop_column_missing_threshold removes from the
\* train table exactly the columns whose fraction of missing values is at
\* least the threshold and keeps the others; a test table that shares the
\* labels is reduced to the same columns, whatever its own fractions are
C4_DropColumnMissingThreshold ==
    (last.op = "drop_column_missing_threshold" /\ ~OutsideUnitInterval(last.args.threshold)) =>
        LET kept == {c \in Range(pre.train_data.cols) :
                        ~FractionMissingAtLeast(pre.train_data, c, last.args.threshold)} IN
        /\ ReducedTo(train_data, pre.train_data, kept)
        /\ PairWasConsistent =>
              /\ last.raised = ""
              /\ IF pre.test_data = None THEN test_data = None
                 ELSE /\ ReducedTo(test_data, pre.test_data, kept)
                      /\ test_data.cols = train_data.cols

\* C4 witness: a train column missing exactly the threshold fraction (1/2) was
\* removed, and the test table lost it although nothing is missing there
C4_Witness ==
    /\ last.op = "drop_column_missing_threshold"
    /\ last.args.threshold = <<2, 4>>
    /\ pre.test_data # None
    /\ NCols(train_data) = 1
    /\ \E c \in Range(pre.train_data.cols) \ Range(test_data.cols) :
          /\ NullCount(pre.train_data, c) = 1
          /\ NullCount(pre.test_data, c) = 0

\* the rows of t whose fraction of missing values is below the threshold
RowsBelowThreshold(t, threshold) ==
    {i \in 1..NRows(t) :
        (NCols(t) - NonNullCount(t, i)) * threshold[2] < threshold[1] * NCols(t)}

\* C5: for a threshold in [0,1] drop_rows_missing_threshold leaves in each
\* table exactly the rows whose fraction of missing values is below the
\* threshold
C5_DropRowsMissingThreshold ==
    (last.op = "drop_rows_missing_threshold" /\ ~OutsideUnitInterval(last.args.threshold)) =>
        /\ train_data = SelectRows(pre.train_data,
                                   RowsBelowThreshold(pre.train_data, last.args.threshold))
        /\ pre.test_data # None =>
              test_data = SelectRows(pre.test_data,
                                     RowsBelowThreshold(pre.test_data, last.args.threshold))

ImputeOps == {"replace_missing_mean", "replace_missing_median",
              "replace_missing_mostcommon"}

\* the columns a call selects: the list, else the positional columns, else
\* every column of the table
Targeted(args, t) ==
    IF args.list_of_cols # <<>> THEN Range(args.list_of_cols)
    ELSE IF args.list_args # <<>> THEN Range(args.list_args)
    ELSE Range(t.cols)

NoMissingIn(t, cols) == \A c \in cols : \A i \in 1..NRows(t) : t.rows[i][c] # NaN

XPairWasConsistent ==
    pre.x_test = None \/ SameColumnSet(pre.x_train, pre.x_test)

\* the columns replace_missing_indicator was asked to describe
IndicatorTargets == Range(_input_columns(last.args.list_args, last.args.list_of_cols))

\* the names of the indicator columns of the targets
IndicatorNames == {c \o "_missing" : c \in IndicatorTargets}

\* table after is table before with one indicator column per target: it has
\* the columns of before (without the targets unless keep_col) and the
\* indicator columns, each indicator cell tells whether the target's cell of
\* that row was missing, and every other column is as it was
IndicatorColumnsAdded(after, before) ==
    LET stay == IF last.args.keep_col THEN Range(before.cols)
                ELSE Range(before.cols) \ IndicatorTargets
    IN  /\ Range(after.cols) = stay \cup IndicatorNames
        /\ NCols(after) = Cardinality(stay) + Cardinality(IndicatorTargets)
        /\ NRows(after) = NRows(before)
        /\ \A c \in IndicatorTargets : \A i \in 1..NRows(before) :
              after.rows[i][c \o "_missing"] =
                  IF before.rows[i][c] = NaN THEN last.args.missing_indicator
                  ELSE last.args.valid_indicator
        /\ \A c \in stay : Column(after, c) = Column(before, c)

IndicatorOutcome ==
    /\ last.raised = ""
    /\ IndicatorColumnsAdded(x_train, pre.x_train)
    /\ IF pre.x_test = None THEN x_test = None
       ELSE IndicatorColumnsAdded(x_test, pre.x_test)

ConstantOps == {"replace_missing_constant", "replace_missing_new_category"}

\* table after is table before with the missing cells of each column c of
\* cols holding value[c], and every other cell as it was
FilledWith(after, before, cols, value) ==
    /\ after.cols = before.cols
    /\ NRows(after) = NRows(before)
    /\ \A i \in 1..NRows(before) : \A c \in Range(before.cols) :
          after.rows[i][c] = IF c \in cols /\ before.rows[i][c] = NaN THEN value[c]
                             ELSE before.rows[i][c]

\* both tables are filled in the columns cols with value
PairFilledWith(cols, value) ==
    /\ last.raised = ""
    /\ FilledWith(x_train, pre.x_train, cols, value)
    /\ IF pre.x_test = None THEN x_test = None
       ELSE FilledWith(x_test, pre.x_test, cols, value)

\* the explicit column arguments of the last call
ExplicitColumns ==
    IF last.args.list_of_cols # <<>> THEN Range(last.args.list_of_cols)
    ELSE Range(last.args.list_args)

\* the mapping is what the call hands on as its selector, and on a dataset
\* pair every mapped column is filled with its own value
MappingUsed ==
    /\ last.args.col_to_category = last.args.col_mapping
    /\ XPairWasConsistent =>
          PairFilledWith(DOMAIN last.args.col_mapping.map, last.args.col_mapping.map)

\* the column arguments (the list, else the positional ones; none when none
\* is given) are what the call hands on as its selector, and on a dataset
\* pair the explicit columns, or every column when there is none, are filled
\* with the single constant
ColumnArgumentsUsed ==
    LET cols == IF ExplicitColumns # {} THEN ExplicitColumns ELSE Range(pre.x_train.cols)
    IN  /\ last.args.col_to_category.kind = "list"
        /\ Range(last.args.col_to_category.cols) = ExplicitColumns
        /\ XPairWasConsistent => PairFilledWith(cols, [c \in cols |-> last.args.constant])

\* C8 as claimed: a mapping that is given is what gets used, each mapped
\* column filled with its own value, whatever column arguments are passed;
\* without a mapping the explicit columns are filled with the constant, and
\* without those every column is
C8_SelectorOrder ==
    last.op \in ConstantOps =>
        IF last.args.col_mapping # None THEN MappingUsed ELSE ColumnArgumentsUsed

\* C8 as amended: the same with "a non-empty mapping" for "a mapping"; an
\* empty mapping counts as none given
C8_SelectorOrderNonEmptyMapping ==
    last.op \in ConstantOps =>
        IF last.args.col_mapping # None /\ DOMAIN last.args.col_mapping.map # {}
        THEN MappingUsed ELSE ColumnArgumentsUsed

\* C8 witness: replace_missing_constant got a mapping for a and b together
\* with the column argument "b", and column a was filled with its mapped value
C8_Witness ==
    /\ last.op = "replace_missing_constant"
    /\ last.raised = ""
    /\ last.args.col_mapping # None
    /\ DOMAIN last.args.col_mapping.map = {"a", "b"}
    /\ last.args.list_args = <<"b">>
    /\ \E i \in 1..NRows(x_train) :
          pre.x_train.rows[i]["a"] = NaN /\ x_train.rows[i]["a"] = Num(7)

\* C9: a call that completes returns the wrapper it was called on, and the
\* wrapper has one stored train table and one stored test table that show
\* the effect of every call so far: the tables the threshold and column drops
\* read and write (train_data, test_data) are the tables the fills and row
\* removals read and write (x_train, x_test)
C9_CallsAccumulateInTheStoredPair ==
    /\ (last.op # "init" /\ last.raised = "") => last.ret = "self"
    /\ x_train = train_data
    /\ x_test = test_data

\* accuracy returned the fraction of the rows predicted right and left the
\* analysis object as it was
FractionCorrectReturned ==
    LET n == Len(pre.y_test)
        hits == Cardinality({i \in 1..n : pre.y_pred[i] = pre.y_test[i]})
    IN  /\ last.raised = ""
        /\ last.ret[2] > 0
        /\ last.ret[1] * n = hits * last.ret[2]
        /\ analysis = pre

AveragePrecisionByRow(y_true, y_score, pos_label) ==
    LET n == Len(y_true)
        positives == {i \in 1..n : y_true[i] = pos_label}
        AtLeast(i) == {j \in 1..n : y_score[j] >= y_score[i]}
        total == RatSum([i \in 1..n |->
                            IF i \in positives
                            THEN RatNorm(Cardinality(AtLeast(i) \cap positives),
                                         Cardinality(AtLeast(i)))
                            ELSE <<0, 1>>])
    IN  RatNorm(total[1], total[2] * Cardinality(positives))

\* C11: average_precision never raises and leaves the analysis object as it
\* was; for a model without a decision function it returns NaN; for a model
\* with one it returns the average precision of the decision-function output
\* against the held-out labels (when a held-out row has the positive label;
\* otherwise the score is undefined and NaN or 0 comes back)
C11_AveragePrecisionOrNaN ==
    last.op = "average_precision" =>
        LET pos_label == KeywordOr(last.args, "pos_label", 1)
        IN  /\ last.raised = ""
            /\ analysis = pre
            /\ ~pre.model.decision_function => last.ret = NaN
            /\ pre.model.decision_function =>
                 IF \E i \in 1..Len(pre.y_test) : pre.y_test[i] = pos_label
                 THEN last.ret = AveragePrecisionByRow(pre.y_test, pre.model.output, pos_label)
                 ELSE last.ret \in {NaN, <<0, 1>>}

\* C11 witness: a model without a decision function gave NaN
C11_Witness ==
    /\ last.op = "average_precision"
    /\ ~pre.model.decision_function
    /\ last.ret = NaN
    /\ last.raised = ""

\* column c of table t has a cell that cannot be hashed, so that counting its
\* distinct values fails
CountFails(t, c) == \E i \in 1..NRows(t) : t.rows[i][c] = ListValue

\* C12: when counting the distinct values fails for some column of the train
\* table, drop_constant_columns returns, and the train table (and a test
\* table that shares the labels) keeps exactly the columns for which the
\* count succeeds and is not 0 or 1
C12_CountFailureExcludesThatColumnOnly ==
    (/\ last.op = "drop_constant_columns"
     /\ \E c \in Range(pre.train_data.cols) : CountFails(pre.train_data, c)
     /\ PairWasConsistent) =>
        LET kept == {c \in Range(pre.train_data.cols) :
                        /\ ~CountFails(pre.train_data, c)
                        /\ DistinctPresent(pre.train_data, c) \notin {0, 1}} IN
        /\ last.raised = ""
        /\ ReducedTo(train_data, pre.train_data, kept)
        /\ pre.test_data # None => ReducedTo(test_data, pre.test_data, kept)

\* table after holds, in order, the first row of table before for each
\* combination of values in the columns cols, and no other row
FirstOfEachCombination(after, before, cols) ==
    LET first == {i \in 1..NRows(before) :
                     \A j \in 1..(i - 1) :
                         \E c \in cols : before.rows[j][c] # before.rows[i][c]}
    IN  after = SelectRows(before, first)

\* C13: drop_duplicate_rows on selected columns leaves in the train table, and
\* in the test table when present, the first row of each combination of
\* values in those columns, and the tables that hold the result are the
\* tables every other operation reads (train_data and x_train are one table,
\* test_data and x_test are one table)
C13_DuplicateRowsDroppedInTheStoredPair ==
    (last.op = "drop_duplicate_rows" /\ last.raised = "") =>
        LET cols == Range(_input_columns(last.args.list_args, last.args.list_of_cols)) IN
        /\ FirstOfEachCombination(x_train, pre.x_train, cols)
        /\ train_data = x_train
        /\ pre.x_test # None => FirstOfEachCombination(x_test, pre.x_test, cols)
        /\ test_data = x_test

\* C14: replace_missing_knn on a pair without a test table, whose train
\* table has a value in every column, returns; the train table afterwards has
\* the columns it had and no missing value, and the test table is still absent
C14_KnnWithoutTestTable ==
    (/\ last.op = "replace_missing_knn"
     /\ pre.test_data = None
     /\ ~HasEmptyColumn(pre.train_data)) =>
        /\ last.raised = ""
        /\ train_data.cols = pre.train_data.cols
        /\ NoMissingIn(train_data, Range(train_data.cols))
        /\ test_data = None

\* C16: replace_missing_knn(k=n) imputes with n neighbours: after a call that
\* returns, the train table is a k-nearest-neighbour imputation of the train
\* table before the call with n_neighbors = k (5 when k is not given)
C16_KnnUsesK ==
    (last.op = "replace_missing_knn" /\ last.raised = "") =>
        train_data \in KnnTables(pre.train_data, last.args.k)

\* C15: after replace_missing_interpolate has returned, each selected column
\* of the train table, and of the test table when present, is the
\* interpolation of what it was by the method the caller passed
C15_InterpolateUsesMethod ==
    (last.op = "replace_missing_interpolate" /\ last.raised = "") =>
        \A c \in Range(_input_columns(last.args.list_args, last.args.list_of_cols)) :
            /\ Column(x_train, c) = interpolate(Column(pre.x_train, c), last.args.method)
            /\ pre.x_test # None =>
                  Column(x_test, c) = interpolate(Column(pre.x_test, c), last.args.method)

\* in column c, table after has a value of the set values where table
\* before has a missing cell, and the cell of before everywhere else
FilledFrom(after, before, c, values) ==
    \A i \in 1..NRows(before) :
        IF before.rows[i][c] = NaN THEN after.rows[i][c] \in values
        ELSE after.rows[i][c] = before.rows[i][c]

\* table after has the labels and the number of rows of table before, and
\* the columns outside cols as they were
OnlyColumnsChanged(after, before, cols) ==
    /\ after.cols = before.cols
    /\ NRows(after) = NRows(before)
    /\ \A c \in Range(before.cols) \ cols : Column(after, c) = Column(before, c)

\* C17: after replace_missing_random_discrete has returned, every cell of a
\* selected column that was missing, in the train table or in the test table,
\* holds a value that the column had in some row of the train table before the
\* call; every other cell of both tables is as it was
C17_RandomDiscreteDrawsFromTrain ==
    (last.op = "replace_missing_random_discrete" /\ last.raised = "") =>
        LET cols == Range(_input_columns(last.args.list_args, last.args.list_of_cols))
            TrainValues(c) == {pre.x_train.rows[i][c] : i \in 1..NRows(pre.x_train)} \ {NaN}
        IN  /\ OnlyColumnsChanged(x_train, pre.x_train, cols)
            /\ \A c \in cols : FilledFrom(x_train, pre.x_train, c, TrainValues(c))
            /\ IF pre.x_test = None THEN x_test = None
               ELSE /\ OnlyColumnsChanged(x_test, pre.x_test, cols)
                    /\ \A c \in cols : FilledFrom(x_test, pre.x_test, c, TrainValues(c))

\* C17 witness: a missing cell of the test table got a value of the train
\* column, in a column where the test table had no value of its own, and a
\* missing cell of the train table was filled as well
C17_Witness ==
    /\ last.op = "replace_missing_random_discrete"
    /\ last.raised = ""
    /\ pre.x_test # None
    /\ \E c \in Range(_input_columns(last.args.list_args, last.args.list_of_cols)) :
          /\ \A i \in 1..NRows(pre.x_test) : pre.x_test.rows[i][c] = NaN
          /\ \E i \in 1..NRows(x_test) : x_test.rows[i][c] # NaN
          /\ \E i \in 1..NRows(x_train) :
                pre.x_train.rows[i][c] = NaN /\ x_train.rows[i][c] # NaN

====
